---- MODULE Spec2Model ----
(***************************************************************************)
(* ModelTradeRenderer (frontend/src/components/valuecell/renderer/         *)
(* model-trade-renderer.tsx): a memoised React component that decodes its  *)
(* `content` prop with two calls of best-effort-json-parser's parse and    *)
(* hands the title to a heading and the dataset to MultiLineChart.         *)
(*                                                                         *)
(* Text is a TLA+ string, a character is a string of length 1.  A          *)
(* JavaScript value is a record [t, s, n, items] (see "JavaScript values").*)
(* An operation that can throw returns a record with ok = FALSE.           *)
(***************************************************************************)
EXTENDS Integers, Sequences, FiniteSets, TLC

\* ------------------------------------------------------------------------
\* Text helpers (String.prototype)
\* ------------------------------------------------------------------------
charAt(s, i) == IF i >= 1 /\ i <= Len(s) THEN SubSeq(s, i, i) ELSE ""

\* s.substring(i) with 1-based i
substr(s, i) == IF i > Len(s) THEN "" ELSE SubSeq(s, i, Len(s))

startsWith(s, p) == Len(p) <= Len(s) /\ SubSeq(s, 1, Len(p)) = p

isSpace(c) == c \in {" ", "\n", "\t", "\r"}

RECURSIVE trimLeft(_)
trimLeft(s) == IF s # "" /\ isSpace(charAt(s, 1)) THEN trimLeft(substr(s, 2)) ELSE s

RECURSIVE trimRight(_)
trimRight(s) ==
    IF s # "" /\ isSpace(charAt(s, Len(s))) THEN trimRight(SubSeq(s, 1, Len(s) - 1)) ELSE s

trim(s) == trimRight(trimLeft(s))

\* the least element of a set of positions, 0 when it is empty
firstOf(S) == IF S = {} THEN 0 ELSE CHOOSE i \in S : \A j \in S : i <= j

\* s.indexOf(c, i), 0 when absent (1-based otherwise)
indexOfFrom(s, c, i) == firstOf({p \in i..Len(s) : charAt(s, p) = c})

\* the pieces lo..hi of a sequence of texts, joined
RECURSIVE concatRange(_, _, _)
concatRange(pieces, lo, hi) ==
    IF lo > hi THEN ""
    ELSE IF lo = hi THEN pieces[lo]
    ELSE concatRange(pieces, lo, (lo + hi) \div 2)
            \o concatRange(pieces, (lo + hi) \div 2 + 1, hi)

concat(pieces) == concatRange(pieces, 1, Len(pieces))

IsPrefixOf(p, s) == startsWith(s, p)

\* ------------------------------------------------------------------------
\* JavaScript values
\*   t     : "undefined" | "null" | "boolean" | "number" | "string"
\*           | "array" | "object" | "entry"
\*   s     : text of a string, key of an entry, fraction digits of a number
\*   n     : integer part of a number, 1/0 of a boolean
\*   items : elements of an array, entries of an object, value of an entry
\* ------------------------------------------------------------------------
JsVal(t, s, n, items) == [t |-> t, s |-> s, n |-> n, items |-> items]

Undefined == JsVal("undefined", "", 0, <<>>)
Null == JsVal("null", "", 0, <<>>)
Bool(b) == JsVal("boolean", "", IF b THEN 1 ELSE 0, <<>>)
Num(n) == JsVal("number", "", n, <<>>)
NumFrac(n, frac) == JsVal("number", frac, n, <<>>)
Str(s) == JsVal("string", s, 0, <<>>)
Arr(items) == JsVal("array", "", 0, items)
Entry(k, v) == JsVal("entry", k, 0, <<v>>)
Obj(entries) == JsVal("object", "", 0, entries)

\* acc[key] = value on an object: overwrite in place or append
RECURSIVE PutEntries(_, _, _)
PutEntries(entries, k, v) ==
    IF entries = <<>> THEN <<Entry(k, v)>>
    ELSE IF Head(entries).s = k THEN <<Entry(k, v)>> \o Tail(entries)
    ELSE <<Head(entries)>> \o PutEntries(Tail(entries), k, v)

Put(o, k, v) == Obj(PutEntries(o.items, k, v))

\* property read v[k]: own entries of an object, undefined on every other
\* value that can be read from (the fields read here are never "length")
RECURSIVE GetEntries(_, _)
GetEntries(entries, k) ==
    IF entries = <<>> THEN Undefined
    ELSE IF Head(entries).s = k THEN Head(entries).items[1]
    ELSE GetEntries(Tail(entries), k)

Get(v, k) == IF v.t = "object" THEN GetEntries(v.items, k) ELSE Undefined

\* ------------------------------------------------------------------------
\* Numbers and their decimal text
\* ------------------------------------------------------------------------
Digits == {"0", "1", "2", "3", "4", "5", "6", "7", "8", "9"}

DigitVal(c) ==
    CASE c = "0" -> 0 [] c = "1" -> 1 [] c = "2" -> 2 [] c = "3" -> 3
      [] c = "4" -> 4 [] c = "5" -> 5 [] c = "6" -> 6 [] c = "7" -> 7
      [] c = "8" -> 8 [] c = "9" -> 9

DigitChar(d) == charAt("0123456789", d + 1)

RECURSIVE DigitsToNat(_, _)
DigitsToNat(s, acc) ==
    IF s = "" THEN acc ELSE DigitsToNat(substr(s, 2), acc * 10 + DigitVal(charAt(s, 1)))

RECURSIVE NatToDigits(_)
NatToDigits(n) ==
    IF n < 10 THEN DigitChar(n) ELSE NatToDigits(n \div 10) \o DigitChar(n % 10)

RECURSIVE allDigits(_)
allDigits(s) == s = "" \/ (charAt(s, 1) \in Digits /\ allDigits(substr(s, 2)))

RECURSIVE trimZeros(_)
trimZeros(s) ==
    IF s # "" /\ charAt(s, Len(s)) = "0" THEN trimZeros(SubSeq(s, 1, Len(s) - 1)) ELSE s

\* the parts of a decimal text: sign, integer digits, fraction digits
NumParts(text) ==
    LET neg  == charAt(text, 1) = "-"
        body == IF neg THEN substr(text, 2) ELSE text
        dot  == indexOfFrom(body, ".", 1)
    IN  [neg  |-> neg,
         int  |-> IF dot = 0 THEN body ELSE SubSeq(body, 1, dot - 1),
         frac |-> IF dot = 0 THEN "" ELSE substr(body, dot + 1),
         dot  |-> dot # 0]

\* the number a decimal text denotes
NumberOf(text) ==
    LET p    == NumParts(text)
        mag  == DigitsToNat(p.int, 0)
        frac == trimZeros(p.frac)
    IN  NumFrac(IF p.neg THEN 0 - mag ELSE mag,
                IF frac = "" THEN "" ELSE (IF p.neg THEN "-" ELSE "") \o frac)

\* Number(text) is not NaN, for a text over the characters 0-9 . -
IsJsNumeric(text) ==
    LET p == NumParts(text)
    IN  /\ allDigits(p.int) /\ allDigits(p.frac)
        /\ (p.int # "" \/ p.frac # "")

\* the JSON number grammar without exponent
IsJsonNumber(text) ==
    LET p == NumParts(text)
    IN  /\ p.int # "" /\ allDigits(p.int) /\ allDigits(p.frac)
        /\ (Len(p.int) > 1 => charAt(p.int, 1) # "0")
        /\ (p.dot => p.frac # "")

NumberText(v) ==
    LET neg == v.n < 0 \/ charAt(v.s, 1) = "-"
        mag == IF v.n < 0 THEN 0 - v.n ELSE v.n
        frac == IF charAt(v.s, 1) = "-" THEN substr(v.s, 2) ELSE v.s
    IN  (IF neg THEN "-" ELSE "") \o NatToDigits(mag)
            \o (IF frac = "" THEN "" ELSE "." \o frac)

\* ------------------------------------------------------------------------
\* JSON.stringify, as the backend and the documented example build content
\* ------------------------------------------------------------------------
EscapeChar(c) ==
    CASE c = "\"" -> "\\\""
      [] c = "\\" -> "\\\\"
      [] c = "\n" -> "\\n"
      [] c = "\t" -> "\\t"
      [] c = "\r" -> "\\r"
      [] OTHER -> c

Escape(s) == concat([i \in 1..Len(s) |-> EscapeChar(charAt(s, i))])

Quote(s) == "\"" \o Escape(s) \o "\""

\* sp is the text written after "," and ":" ("" as JSON.stringify writes,
\* " " as a backend's default encoder writes)
RECURSIVE stringify(_, _), stringifyItems(_, _), stringifyEntries(_, _, _)
stringify(v, sp) ==
    CASE v.t = "string" -> Quote(v.s)
      [] v.t = "number" -> NumberText(v)
      [] v.t = "boolean" -> IF v.n = 1 THEN "true" ELSE "false"
      [] v.t = "array" -> "[" \o stringifyItems(v.items, sp) \o "]"
      [] v.t = "object" -> "{" \o stringifyEntries(v.items, sp, TRUE) \o "}"
      [] OTHER -> "null"

stringifyItems(items, sp) ==
    IF items = <<>> THEN ""
    ELSE stringify(Head(items), sp)
            \o (IF Len(items) > 1 THEN "," \o sp ELSE "") \o stringifyItems(Tail(items), sp)

\* an entry whose value is undefined is left out
stringifyEntries(entries, sp, first) ==
    IF entries = <<>> THEN ""
    ELSE IF Head(entries).items[1].t = "undefined"
         THEN stringifyEntries(Tail(entries), sp, first)
    ELSE (IF first THEN "" ELSE "," \o sp) \o Quote(Head(entries).s) \o ":" \o sp
            \o stringify(Head(entries).items[1], sp)
            \o stringifyEntries(Tail(entries), sp, FALSE)

\* ------------------------------------------------------------------------
\* JSON.parse: the strict grammar; ok = FALSE is a thrown SyntaxError.
\* Escapes \" \\ \/ \n \t \r and numbers without exponent are decoded; any
\* other escape counts as malformed.
\* ------------------------------------------------------------------------
JFail == [ok |-> FALSE, v |-> Undefined, rest |-> ""]
JOk(v, rest) == [ok |-> TRUE, v |-> v, rest |-> rest]

slice(s, a, b) == IF a > b THEN "" ELSE SubSeq(s, a, b)

\* the character at p follows a backslash that starts an escape: a scan
\* that steps over the character after each backslash never stops on it
RECURSIVE escapedAt(_, _)
escapedAt(s, p) == p > 1 /\ charAt(s, p - 1) = "\\" /\ ~escapedAt(s, p - 1)

\* index of the first q at or after i that the scan stops on, 0 when there
\* is none
closingQuote(s, q, i) ==
    firstOf({p \in i..Len(s) : charAt(s, p) = q /\ ~escapedAt(s, p)})

EscapeChars == {"\"", "\\", "/", "n", "t", "r"}

unescapeChar(e) ==
    CASE e = "n" -> "\n" [] e = "t" -> "\t" [] e = "r" -> "\r" [] OTHER -> e

\* the text of a string literal's body: ok = FALSE for an escape that is
\* unknown or cut off and for a raw quote or control character
unescape(b) ==
    LET bad(i) == IF escapedAt(b, i) THEN charAt(b, i) \notin EscapeChars
                  ELSE IF charAt(b, i) = "\\" THEN i = Len(b)
                  ELSE charAt(b, i) \in {"\"", "\n", "\t", "\r"}
        piece(i) == IF escapedAt(b, i) THEN unescapeChar(charAt(b, i))
                    ELSE IF charAt(b, i) = "\\" THEN ""
                    ELSE charAt(b, i)
    IN  IF \E i \in 1..Len(b) : bad(i) THEN [ok |-> FALSE, s |-> ""]
        ELSE [ok |-> TRUE, s |-> concat([i \in 1..Len(b) |-> piece(i)])]

\* the string literal that opens at s[1] and closes at s[i]
JStringDecoded(d, rest) == IF ~d.ok THEN JFail ELSE JOk(Str(d.s), rest)

JStringClosedAt(s, i) ==
    IF i = 0 THEN JFail ELSE JStringDecoded(unescape(slice(s, 2, i - 1)), substr(s, i + 1))

JString(s) == JStringClosedAt(s, closingQuote(s, "\"", 2))

isNumberChar(c) == c \in Digits \cup {".", "-"}

\* length of the leading run of number characters
RECURSIVE numberRun(_, _)
numberRun(s, i) == IF isNumberChar(charAt(s, i + 1)) THEN numberRun(s, i + 1) ELSE i

JNumberText(text, rest) == IF IsJsonNumber(text) THEN JOk(NumberOf(text), rest) ELSE JFail

JNumberRun(s, k) == JNumberText(slice(s, 1, k), substr(s, k + 1))

JNumber(s) == JNumberRun(s, numberRun(s, 0))

RECURSIVE JValue(_), JElements(_, _), JElementsNext(_, _), JMembers(_, _),
          JMemberValue(_, _), JMembersNext(_, _, _)
JValue(s0) ==
    LET s == trimLeft(s0)
        c == charAt(s, 1)
    IN  IF c = "\"" THEN JString(s)
        ELSE IF c = "[" THEN
            IF charAt(trimLeft(substr(s, 2)), 1) = "]"
            THEN JOk(Arr(<<>>), substr(trimLeft(substr(s, 2)), 2))
            ELSE JElements(substr(s, 2), <<>>)
        ELSE IF c = "{" THEN
            IF charAt(trimLeft(substr(s, 2)), 1) = "}"
            THEN JOk(Obj(<<>>), substr(trimLeft(substr(s, 2)), 2))
            ELSE JMembers(substr(s, 2), Obj(<<>>))
        ELSE IF startsWith(s, "true") THEN JOk(Bool(TRUE), substr(s, 5))
        ELSE IF startsWith(s, "false") THEN JOk(Bool(FALSE), substr(s, 6))
        ELSE IF startsWith(s, "null") THEN JOk(Null, substr(s, 5))
        ELSE IF isNumberChar(c) THEN JNumber(s)
        ELSE JFail

\* the elements of an array: a value, then "," and more or "]"
JElements(s, acc) == JElementsNext(JValue(s), acc)

JElementsNext(r, acc) ==
    IF ~r.ok THEN JFail
    ELSE IF charAt(trimLeft(r.rest), 1) = ","
         THEN JElements(substr(trimLeft(r.rest), 2), Append(acc, r.v))
    ELSE IF charAt(trimLeft(r.rest), 1) = "]"
         THEN JOk(Arr(Append(acc, r.v)), substr(trimLeft(r.rest), 2))
    ELSE JFail

\* the members of an object: a string key, ":", a value, then "," and more
\* or "}"
JMembers(s0, acc) ==
    IF charAt(trimLeft(s0), 1) = "\"" THEN JMemberValue(JString(trimLeft(s0)), acc) ELSE JFail

JMemberValue(k, acc) ==
    IF k.ok /\ charAt(trimLeft(k.rest), 1) = ":"
    THEN JMembersNext(k.v.s, JValue(substr(trimLeft(k.rest), 2)), acc)
    ELSE JFail

JMembersNext(key, r, acc) ==
    IF ~r.ok THEN JFail
    ELSE IF charAt(trimLeft(r.rest), 1) = ","
         THEN JMembers(substr(trimLeft(r.rest), 2), Put(acc, key, r.v))
    ELSE IF charAt(trimLeft(r.rest), 1) = "}"
         THEN JOk(Put(acc, key, r.v), substr(trimLeft(r.rest), 2))
    ELSE JFail

JSONparseWhole(r) == IF r.ok /\ trimLeft(r.rest) = "" THEN JOk(r.v, "") ELSE JFail

JSONparse(s) == JSONparseWhole(JValue(s))

\* ------------------------------------------------------------------------
\* best-effort-json-parser (the package imported as `parse`).  A parser
\* takes the remaining text and returns [ok, v, rest]; ok = FALSE is a throw.
\* ------------------------------------------------------------------------
skipSpace(s) == trimLeft(s)

NoFallback == [has |-> FALSE, delimiters |-> {}]
Fallback(delimiters) == [has |-> TRUE, delimiters |-> delimiters]

fixEscapedChar(c) ==
    CASE c = "\n" -> "\\n" [] c = "\t" -> "\\t" [] c = "\r" -> "\\r" [] OTHER -> c

fixEscapedCharacters(s) == concat([i \in 1..Len(s) |-> fixEscapedChar(charAt(s, i))])

\* a double-quoted string, closed or cut off by the end of the text
\* [JSON.parse(literal), rest], a throw of JSON.parse passed on
parsedLiteral(r, rest) == IF ~r.ok THEN JFail ELSE JOk(r.v, rest)

\* i is the index of the closing quote, 0 when the end of the text cut the
\* string off
parseStringClosedAt(s, i) ==
    parsedLiteral(JSONparse(IF i = 0 THEN fixEscapedCharacters(s) \o "\""
                            ELSE fixEscapedCharacters(slice(s, 1, i))),
                  IF i = 0 THEN "" ELSE substr(s, i + 1))

parseString(s) == parseStringClosedAt(s, closingQuote(s, "\"", 2))

parseSingleQuoteStringClosedAt(s, i) ==
    parsedLiteral(JSONparse("\"" \o (IF i = 0 THEN fixEscapedCharacters(substr(s, 2))
                                     ELSE fixEscapedCharacters(slice(s, 2, i - 1))) \o "\""),
                  IF i = 0 THEN "" ELSE substr(s, i + 1))

parseSingleQuoteString(s) == parseSingleQuoteStringClosedAt(s, closingQuote(s, "'", 2))

\* text up to the first delimiter, trimmed
splitAt(s, index) == JOk(Str(trim(slice(s, 1, index - 1))), substr(s, index))

firstDelimiter(s, hits) == IF hits = {} THEN Len(s) + 1 ELSE firstOf(hits)

parseStringWithoutQuote(s, delimiters) ==
    splitAt(s, firstDelimiter(s, {indexOfFrom(s, d, 1) : d \in delimiters} \ {0}))

parseStringCasual(s, delimiters) ==
    IF charAt(s, 1) = "\"" THEN parseString(s)
    ELSE IF charAt(s, 1) = "'" THEN parseSingleQuoteString(s)
    ELSE parseStringWithoutQuote(s, delimiters)

numToStr(text) ==
    IF text = "-" THEN Num(0)
    ELSE IF IsJsNumeric(text) THEN NumberOf(text)
    ELSE Str(text)

parseNumberRun(s, k) == JOk(numToStr(slice(s, 1, k)), substr(s, k + 1))

parseNumber(s) == parseNumberRun(s, numberRun(s, 0))

\* the longest prefix of the token that the text starts with
RECURSIVE tokenMatch(_, _, _)
tokenMatch(s, tokenStr, i) ==
    IF i = 0 THEN 0
    ELSE IF startsWith(s, slice(tokenStr, 1, i)) THEN i
    ELSE tokenMatch(s, tokenStr, i - 1)

parseTokenMatched(s, i, tokenVal) == IF i = 0 THEN JFail ELSE JOk(tokenVal, substr(s, i + 1))

parseToken(s, tokenStr, tokenVal) ==
    parseTokenMatched(s, tokenMatch(s, tokenStr, Len(tokenStr)), tokenVal)

\* the text after an optional comma
afterComma(t) == IF charAt(t, 1) = "," THEN skipSpace(substr(t, 2)) ELSE t

RECURSIVE parseAny(_, _), parseArrayLoop(_, _), parseArrayNext(_, _), parseObjectLoop(_, _),
          parseObjectKey(_, _), parseObjectValue(_, _, _), parseObjectNext(_, _, _)
parseAny(s, fallback) ==
    LET c == charAt(s, 1)
    IN  IF c # "" /\ isSpace(c) THEN parseAny(skipSpace(s), NoFallback)
        ELSE IF c = "[" THEN parseArrayLoop(skipSpace(substr(s, 2)), <<>>)
        ELSE IF c = "{" THEN parseObjectLoop(skipSpace(substr(s, 2)), Obj(<<>>))
        ELSE IF c = "\"" THEN parseString(s)
        ELSE IF c = "'" THEN parseSingleQuoteString(s)
        ELSE IF c = "t" THEN parseToken(s, "true", Bool(TRUE))
        ELSE IF c = "f" THEN parseToken(s, "false", Bool(FALSE))
        ELSE IF c = "n" THEN parseToken(s, "null", Null)
        ELSE IF isNumberChar(c) THEN parseNumber(s)
        ELSE IF fallback.has THEN parseStringWithoutQuote(s, fallback.delimiters)
        ELSE JFail

\* parseArray after the opening bracket
parseArrayLoop(s, acc) ==
    IF s = "" THEN JOk(Arr(acc), s)
    ELSE IF charAt(s, 1) = "]" THEN JOk(Arr(acc), substr(s, 2))
    ELSE parseArrayNext(parseAny(s, Fallback({",", "]"})), acc)

parseArrayNext(res, acc) ==
    IF ~res.ok THEN JFail
    ELSE parseArrayLoop(afterComma(skipSpace(res.rest)), Append(acc, res.v))

\* parseObject after the opening brace
parseObjectLoop(s, acc) ==
    IF s = "" THEN JOk(acc, s)
    ELSE IF charAt(s, 1) = "}" THEN JOk(acc, substr(s, 2))
    ELSE parseObjectKey(parseStringCasual(s, {":", "}"}), acc)

\* after the key: without a colon the key is kept with an undefined value
parseObjectKey(keyRes, acc) ==
    IF ~keyRes.ok THEN JFail
    ELSE IF charAt(skipSpace(keyRes.rest), 1) # ":"
         THEN JOk(Put(acc, keyRes.v.s, Undefined), skipSpace(keyRes.rest))
    ELSE parseObjectValue(keyRes.v.s, skipSpace(substr(skipSpace(keyRes.rest), 2)), acc)

\* after the colon: the text may end here
parseObjectValue(key, s, acc) ==
    IF s = "" THEN JOk(Put(acc, key, Undefined), s)
    ELSE parseObjectNext(key, parseAny(s, NoFallback), acc)

parseObjectNext(key, valueRes, acc) ==
    IF ~valueRes.ok THEN JFail
    ELSE parseObjectLoop(afterComma(skipSpace(valueRes.rest)), Put(acc, key, valueRes.v))

\* number of backslashes the text ends with
RECURSIVE trailingBackslashes(_)
trailingBackslashes(s) ==
    IF s # "" /\ charAt(s, Len(s)) = "\\"
    THEN 1 + trailingBackslashes(slice(s, 1, Len(s) - 1)) ELSE 0

\* an escape cut off at the end of the text is dropped
dropIncompleteEscape(s) ==
    IF trailingBackslashes(s) % 2 = 1 THEN slice(s, 1, Len(s) - 1) ELSE s

\* the catch branch of parse: the best-effort value and what was left over
parseBestEffort(res, reminding) ==
    IF ~res.ok THEN [ok |-> FALSE, v |-> Undefined, reminding |-> reminding]
    ELSE [ok |-> TRUE, v |-> res.v, reminding |-> Str(res.rest)]

\* try { return JSON.parse(s) } catch (e) { ... }
parseTry(strict, s, reminding) ==
    IF strict.ok THEN [ok |-> TRUE, v |-> strict.v, reminding |-> reminding]
    ELSE parseBestEffort(parseAny(s, IF startsWith(trimLeft(s), ":") THEN NoFallback
                                     ELSE Fallback({" "})), reminding)

parseText(s, reminding) == parseTry(JSONparse(s), s, reminding)

\* parse(x) given the parser's lastParseReminding; returns
\* [ok, v, reminding] with the lastParseReminding it leaves behind
parse(x, reminding) ==
    IF x.t \in {"undefined", "null"} THEN [ok |-> TRUE, v |-> x, reminding |-> reminding]
    ELSE IF x = Str("") THEN [ok |-> TRUE, v |-> x, reminding |-> reminding]
    ELSE IF x.t # "string" THEN [ok |-> FALSE, v |-> Undefined, reminding |-> reminding]
    ELSE parseText(dropIncompleteEscape(x.s), reminding)

\* ------------------------------------------------------------------------
\* The component
\* ------------------------------------------------------------------------
DisclaimerLines ==
    << "1. The AI tools are for simulation only and do not provide investment advice",
       "2. The tools may contain errors or delays and cannot account for all market factors. You are solely responsible for your trading decisions. Use caution - markets involve risk." >>

\* a plausible slip: the height prop passed on to the chart
chartHeight_forwarded(props) == props.height

\* height={"90%"} on MultiLineChart
chartHeight(props) == Str("90%")

\* what React accepts as the child {title} of the heading: an object throws
RECURSIVE validChild(_)
validChild(v) ==
    IF v.t = "object" THEN FALSE
    ELSE IF v.t = "array" THEN \A i \in 1..Len(v.items) : validChild(v.items[i])
    ELSE TRUE

\* a plausible slip: the title is dropped until the data has arrived
destructure_needsData(v) ==
    IF v.t \in {"undefined", "null"} THEN [ok |-> FALSE, title |-> Undefined, data |-> Undefined]
    ELSE [ok |-> TRUE,
          title |-> IF Get(v, "data").t = "undefined" THEN Undefined ELSE Get(v, "title"),
          data |-> Get(v, "data")]

\* const { title, data } = <value>: reading from null or undefined throws
destructure(v) ==
    IF v.t \in {"undefined", "null"} THEN [ok |-> FALSE, title |-> Undefined, data |-> Undefined]
    ELSE [ok |-> TRUE, title |-> Get(v, "title"), data |-> Get(v, "data")]

\* a plausible slip: JSON.parse(content) in place of the lenient parser
strictOnly(r, reminding) == [ok |-> r.ok, v |-> r.v, reminding |-> reminding]

firstParse_strict(content, reminding) == strictOnly(JSONparse(content), reminding)

\* parse(content)
firstParse(content, reminding) == parse(Str(content), reminding)

\* a plausible slip: data handed to the chart without the second parse
secondParse_skipped(data, reminding) == [ok |-> TRUE, v |-> data, reminding |-> reminding]

\* a plausible slip: JSON.parse(data), which throws on undefined
secondParse_strict(data, reminding) ==
    IF data.t = "null" THEN [ok |-> TRUE, v |-> Null, reminding |-> reminding]
    ELSE IF data.t # "string" THEN [ok |-> FALSE, v |-> Undefined, reminding |-> reminding]
    ELSE strictOnly(JSONparse(data.s), reminding)

\* parse(data)
secondParse(data, reminding) == parse(data, reminding)

NoView ==
    [status |-> "unmounted", heading |-> Undefined, chartData |-> Undefined,
     chartHeight |-> Undefined, disclaimer |-> <<>>]

\* a render that threw leaves nothing of the component on screen
Threw ==
    [status |-> "threw", heading |-> Undefined, chartData |-> Undefined,
     chartHeight |-> Undefined, disclaimer |-> <<>>]

\* one call of the component function: the tree it returns and the
\* lastParseReminding the two parse calls leave behind
\* return ( ... ): the heading, the chart and the disclaimer
returnTree(props, title, parsedData) ==
    IF ~parsedData.ok THEN [view |-> Threw, reminding |-> parsedData.reminding]
    ELSE IF ~validChild(title) THEN [view |-> Threw, reminding |-> parsedData.reminding]
    ELSE [view |-> [status |-> "rendered",
                    heading |-> title,
                    chartData |-> parsedData.v,
                    chartHeight |-> chartHeight(props),
                    disclaimer |-> DisclaimerLines],
          reminding |-> parsedData.reminding]

\* const parsedData = parse(data)
withFields(props, fields, reminding) ==
    IF ~fields.ok THEN [view |-> Threw, reminding |-> reminding]
    ELSE returnTree(props, fields.title, secondParse(fields.data, reminding))

\* const { title, data } = <first>
withFirst(props, first) ==
    IF ~first.ok THEN [view |-> Threw, reminding |-> first.reminding]
    ELSE withFields(props, destructure(first.v), first.reminding)

ModelTradeRenderer(props, reminding) == withFirst(props, firstParse(props.content, reminding))

\* a plausible slip: a comparison that looks at the height only
arePropsEqual_heightOnly(prev, next) == prev.height = next.height

\* memo(ModelTradeRenderer): the default shallow comparison of the props
arePropsEqual(prev, next) == prev.content = next.content /\ prev.height = next.height

\* ------------------------------------------------------------------------
\* Inputs
\* ------------------------------------------------------------------------
MaxRows == 3
MaxCols == 3

CreateTime == "2025-10-21 02:57:22"

\* the table of the documented example
DocTable ==
    Arr(<< Arr(<<Str("Time"), Str("Model 1"), Str("Model 2")>>),
           Arr(<<Str("2024-01"), Num(120), Num(200)>>),
           Arr(<<Str("2024-02"), Num(132), Num(154)>>) >>)

DocTitle == "Portfolio Value History"

cell(i, j) == IF (i + j) % 3 = 0 THEN 0 - (10 * i + j) ELSE 100 * j + 12 * i

\* a table of r rows (the header row included) and c columns
Table(r, c) ==
    Arr([i \in 1..r |->
        Arr([j \in 1..c |->
            IF i = 1 THEN (IF j = 1 THEN Str("Time") ELSE Str("M" \o NatToDigits(j - 1)))
            ELSE IF j = 1 THEN Str("2024-0" \o NatToDigits(i - 1))
            ELSE Num(cell(i - 1, j - 1))])])

\* the smallest and the largest tables in each dimension
Tables == {Table(r, c) : r \in {2, MaxRows}, c \in {2, MaxCols}}

Titles == {"T", "Q\"1\\"}

Styles == {"", " "}

Envelope(title, data) ==
    Obj(<<Entry("title", title), Entry("data", data), Entry("create_time", Str(CreateTime))>>)

\* the content the backend sends: the table encoded into the data string,
\* the envelope encoded around it
WellFormed(T, D, sp) == stringify(Envelope(Str(T), Str(stringify(D, sp))), sp)

\* the content of the documented example: data given as a nested array
DocExample(T, D) == stringify(Envelope(Str(T), D), "")

\* an envelope without a data field
NoData(title) == stringify(Envelope(title, Undefined), "")

\* the first example of the specification's testable properties
SpecExample == "{\"title\":\"T\",\"data\":\"[[\\\"Time\\\",\\\"A\\\"],[\\\"2024-01\\\",1]]\"}"

SpecExampleTable ==
    Arr(<< Arr(<<Str("Time"), Str("A")>>), Arr(<<Str("2024-01"), Num(1)>>) >>)

WellFormedContents == {WellFormed(T, D, sp) : T \in Titles, D \in Tables, sp \in Styles}
                          \cup {WellFormed(DocTitle, DocTable, "")}
DocContents == {DocExample(DocTitle, DocTable), DocExample("T", SpecExampleTable)}
NoDataContents == {NoData(Str(T)) : T \in Titles} \cup {NoData(Undefined), "{}"}

OtherContents ==
    { "", "null", "nul", "5", "true", "\"x\"", "[1]", "[1,2]]", "x y", SpecExample,
      "{\"title\":\"T\",\"data\":\"[[\\\"Time\\\",\\\"A\\\"],[\\\"20", "{\"title\":\"T\",\"da",
      "{\"title\":\"T\",\"data\":null}",
      "{\"title\":{\"a\":1}}", "{\"title\":\"T\",\"data\":\"{\\\"a\\\":1}\"}",
      "{\"title\":7,\"data\":\"7\"}", "{\"title\":\"T\",\"data\":\"[[1,2]]]\"}" }

Contents == WellFormedContents \cup DocContents \cup NoDataContents \cup OtherContents

Heights == {Undefined, Num(400)}

\* ------------------------------------------------------------------------
\* State
\* ------------------------------------------------------------------------
VARIABLES
    props,               \* the props of the latest parent render
    view,                \* what the component has on screen
    lastParseReminding,  \* parse.lastParseReminding of the parser module
    stream               \* the envelope the backend is writing, if any

vars == <<props, view, lastParseReminding, stream>>

NoStream ==
    [active |-> FALSE, title |-> "", table |-> Arr(<<>>), sp |-> "", text |-> "", sent |-> 0]

Init ==
    /\ props = [content |-> "", height |-> Undefined]
    /\ view = NoView
    /\ lastParseReminding = Undefined
    /\ stream = NoStream

\* the component function has run on next and returned r
commit(next, r) ==
    /\ props' = next
    /\ view' = r.view
    /\ lastParseReminding' = r.reminding

\* the parent renders <ModelTradeRenderer {...next} />: memo skips the call
\* when the component is on screen and the props are equal
renderWith(next) ==
    IF view.status = "rendered" /\ arePropsEqual(props, next)
    THEN /\ props' = next
         /\ UNCHANGED <<view, lastParseReminding>>
    ELSE commit(next, ModelTradeRenderer(next, lastParseReminding))

\* the parent renders with a whole message
ParentRender(c, h) ==
    /\ renderWith([content |-> c, height |-> h])
    /\ stream' = NoStream

\* the backend starts writing the envelope of a new message; a component
\* is mounted for it and renders what has arrived, which is nothing yet
StartStream(T, D, sp, h) ==
    /\ view.status = "unmounted"
    /\ stream' = [active |-> TRUE, title |-> T, table |-> D, sp |-> sp,
                  text |-> WellFormed(T, D, sp), sent |-> 0]
    /\ renderWith([content |-> "", height |-> h])

\* one more character arrives and the parent renders the longer prefix
StreamChunk ==
    /\ stream.active
    /\ stream.sent < Len(stream.text)
    /\ stream' = [stream EXCEPT !.sent = @ + 1]
    /\ renderWith([content |-> slice(stream.text, 1, stream.sent + 1), height |-> props.height])

Unmount ==
    /\ view.status # "unmounted"
    /\ view' = NoView
    /\ stream' = NoStream
    /\ UNCHANGED <<props, lastParseReminding>>

\* whole messages
Next ==
    \/ \E c \in Contents, h \in Heights : ParentRender(c, h)
    \/ Unmount

Spec == Init /\ [][Next]_vars

\* messages that arrive character by character
NextStream ==
    \/ \E T \in Titles, D \in Tables, sp \in Styles, h \in Heights : StartStream(T, D, sp, h)
    \/ StreamChunk
    \/ Unmount

SpecStream == Init /\ [][NextStream]_vars

\* ------------------------------------------------------------------------
\* Properties
\* ------------------------------------------------------------------------
OnScreen == view.status = "rendered"

\* the component function has run on the current props (or memo kept the
\* tree of an earlier run on equal props)
Ran == view.status # "unmounted"

rowCount(v) == IF v.t = "array" THEN Len(v.items) ELSE 0

colCount(v) ==
    IF v.t = "array" /\ v.items # <<>> /\ v.items[1].t = "array"
    THEN Len(v.items[1].items) ELSE 0

isNumber(v) == v.t = "number"

\* C1: a well-formed content whose data string encodes a table D under
\* title T renders heading T and hands the chart a dataset equal to D, with
\* D's rows and columns and its numeric cells as numbers.
C1_WellFormedRoundTrip ==
    /\ \A T \in Titles \cup {DocTitle}, D \in Tables \cup {DocTable}, sp \in Styles :
          (Ran /\ props.content = WellFormed(T, D, sp)) =>
              /\ OnScreen
              /\ view.heading = Str(T)
              /\ view.chartData = D
              /\ rowCount(view.chartData) = rowCount(D)
              /\ colCount(view.chartData) = colCount(D)
              /\ \A i \in 2..rowCount(D), j \in 2..colCount(D) :
                    isNumber(view.chartData.items[i].items[j])
    /\ (Ran /\ props.content = SpecExample) =>
          (OnScreen /\ view.heading = Str("T") /\ view.chartData = SpecExampleTable)

C1_Witness ==
    /\ OnScreen
    /\ props.content = WellFormed(DocTitle, DocTable, "")
    /\ view.heading = Str(DocTitle)
    /\ rowCount(view.chartData) = 3 /\ colCount(view.chartData) = 3
    /\ view.chartData.items[2].items[2] = Num(120)

C3_NonObjectRenders ==
    (Ran /\ firstParse(props.content, Undefined).ok
         /\ firstParse(props.content, Undefined).v.t # "object") => OnScreen

\* C4: an envelope without a data field, with or without a title: the
\* second parse gets undefined and does not throw, the chart gets an
\* undefined dataset and the heading shows the envelope's title.
C4_MissingData ==
    \A t \in {Str(T) : T \in Titles} \cup {Undefined} :
        (Ran /\ props.content \in {NoData(t)} \cup (IF t = Undefined THEN {"{}"} ELSE {})) =>
            /\ destructure(firstParse(props.content, Undefined).v).data = Undefined
            /\ OnScreen
            /\ view.heading = t
            /\ view.chartData = Undefined

C4_Witness ==
    /\ OnScreen
    /\ props.content = NoData(Str("T"))
    /\ view.heading = Str("T")
    /\ view.chartData = Undefined

\* C5: the content of the documented example, whose data is a nested array,
\* renders and hands the chart that table.
C5_DocExampleRenders ==
    (Ran /\ props.content = DocExample(DocTitle, DocTable)) =>
        (OnScreen /\ view.chartData = DocTable)

\* C6: every render shows the disclaimer with its two fixed lines, whatever
\* the content.
C6_DisclaimerAlways ==
    Ran => (view.disclaimer = DisclaimerLines /\ Len(view.disclaimer) = 2)

\* C7: what is on screen is the output of the component function on the
\* current content alone: it depends neither on the renders that came
\* before, nor on what they left in the parser, nor on memo having skipped
\* the call.
C7_Deterministic ==
    Ran => view = ModelTradeRenderer([content |-> props.content, height |-> Undefined],
                                     Undefined).view

\* a well-formed content on screen while the parser still holds the
\* leftover of a malformed one
C7_Witness ==
    /\ OnScreen
    /\ lastParseReminding = Str("]")
    /\ props.content = SpecExample
    /\ view.chartData = SpecExampleTable

\* C8: two renders of the same content with different heights, one of them
\* the documented height={400}, differ in what they hand down.
C8_HeightForwarded ==
    [][(OnScreen /\ OnScreen' /\ props.content = WellFormed(DocTitle, DocTable, "")
            /\ props'.content = props.content
            /\ props'.height # props.height) => view' # view]_vars

\* C9: a completed render gives the chart the height "90%" and the result
\* of the second parse as it is, array or not.
C9_ChartProps ==
    OnScreen =>
        /\ view.chartHeight = Str("90%")
        /\ view.chartData =
              parse(Get(parse(Str(props.content), Undefined).v, "data"), Undefined).v

\* a dataset that is not an array reaches the chart
C9_Witness ==
    /\ OnScreen
    /\ props.height = Num(400)
    /\ view.chartHeight = Str("90%")
    /\ view.chartData = Obj(<<Entry("a", Num(1))>>)

\* the length of the prefix that ends with the title's closing quote
TitleEnd == Len("{" \o Quote("title") \o ":" \o stream.sp \o Quote(stream.title))

C10_HeadingIsPrefix ==
    stream.active =>
        \/ view.heading = Undefined
        \/ view.heading.t = "string" /\ IsPrefixOf(view.heading.s, stream.title)

C10_TitleStays ==
    (stream.active /\ stream.sent >= TitleEnd) => view.heading = Str(stream.title)

C10_RowsBounded ==
    stream.active => rowCount(view.chartData) <= rowCount(stream.table)

C10_RowsGrow ==
    (stream.active /\ stream'.active /\ stream'.sent = stream.sent + 1) =>
        rowCount(view'.chartData) >= rowCount(view.chartData)

====
